---- MODULE Spec2Model ----
(***************************************************************************)
(* The CursorTrail component (src/src/components/cursorTrail.tsx) as a     *)
(* state machine: React state (points, isDesktop, isEnabled), the refs     *)
(* (rawPos, displayPos, pointId), the window's registered listeners and    *)
(* the pending animation-frame callbacks, each with the isDesktop and      *)
(* isEnabled values its closure captured.                                  *)
(*                                                                         *)
(* Coordinates are fixed-point integers: a pixel coordinate c is held as   *)
(* c * Unit, Unit = SmoothDen^FracSteps.  The chase step multiplies by     *)
(* 3/4, so every value the model computes is the exact value of the        *)
(* binary floating-point computation of the source as long as the          *)
(* division by 4 leaves no remainder; a run of the updater whose chase     *)
(* would not be exact is outside the model (guard ChaseExact).             *)
(*                                                                         *)
(* Scheduling.  setIsEnabled (click) and setIsDesktop (resize listener)    *)
(* are called from discrete browser events: React renders and commits      *)
(* them, and runs the effect cleanups and effects, before any other        *)
(* callback can run, so each is one action.  setIsDesktop called by        *)
(* check() inside the mount effect and setPoints called by loop are queued *)
(* (updateQueue) and rendered in a later task (Rerender); the effects of   *)
(* that commit run in a task after it (RunEffects).  Animation frames,     *)
(* input events, clicks and the unmount may come in between.  The updater  *)
(* passed to setPoints (lines 57-72) writes the refs; it runs once, in the *)
(* render, or at the call of setPoints when React has no work marked on    *)
(* the component.  The source names no version of React (line 3), and the  *)
(* builds differ in two ways that show here: whether the render of a click *)
(* or resize takes the queued updates of the mount effect and of loop with *)
(* it, and whether an update that leaves the state as it is stays in the   *)
(* queue.  The build is chosen in Init (react) and every behaviour keeps   *)
(* it.                                                                     *)
(*                                                                         *)
(* FloatSpec applies the chase step (lines 61-64) on its own in binary64,   *)
(* each of its three operations rounded to the nearest double:             *)
(* DisplayPosition a few units in the last place away from RawSample, and  *)
(* RawSample then moved away, to another binade too, while                 *)
(* DisplayPosition carries those low bits.                                 *)
(*                                                                         *)
(* CurveSpec applies smoothPoints and generateSmoothPath (lines 81-112) on *)
(* their own to histories of whole-pixel points.  A path description is    *)
(* held as its sequence of commands: "M x y" as [cmd, args] with args      *)
(* <<x, y>>, each " C a b, c d, e f" as [cmd, args] with the six numbers;  *)
(* the empty string is the empty sequence.  The functions are applied only *)
(* where every division of the source has a whole result, which is where   *)
(* its binary64 arithmetic is exact.                                       *)
(***************************************************************************)
EXTENDS Integers, Sequences, FiniteSets, TLC

VARIABLES
    phase,        \* "created" (first render done), "mounted", "unmounted"
    react,        \* the build of React the component runs on
    hover,        \* window.matchMedia('(hover: hover)').matches
    isDesktop,    \* useState(true), line 10
    isEnabled,    \* useState(true), line 11
    updateQueue,  \* state updates dispatched and not yet rendered, oldest first
    lanes,        \* pending-work marks of the component's two fibers
    deps,         \* <<isDesktop, isEnabled>> of the effects last run
    points,       \* useState<Point[]>([]), line 9, newest first
    rawPos,       \* useRef({x: 0, y: 0}), line 14
    displayPos,   \* useRef({x: 0, y: 0}), line 15
    pointId,      \* useRef(0), line 17
    listeners,    \* listeners registered on window, with their closures
    frames,       \* animation-frame callbacks requested and not yet run
    frameId,      \* `let frameId` of the current frame-loop effect instance
    view,         \* what the last render returned
    totalPushes,  \* history: number of display snapshots pushed so far
    lastAct,      \* history: name of the last action taken
    lastPos,      \* history: coordinates of the last input event delivered
    call          \* the arguments and results of a function applied on its own

vars == <<phase, react, hover, isDesktop, isEnabled, updateQueue, lanes, deps,
          points, rawPos, displayPos, pointId, listeners, frames, frameId,
          view, totalPushes, lastAct, lastPos, call>>

----------------------------------------------------------------------------
(* Program constants *)

MAX_POINTS == 80

ITERATIONS_PER_FRAME == 4

\* SMOOTHING_FACTOR = 0.75 = SmoothNum / SmoothDen
SmoothNum == 3

SmoothDen == 4

(* Bounds of the model *)

\* number of chase sub-steps whose results the fixed-point unit holds exactly
FracSteps == 8

\* frame ticks stop pushing once pointId would pass this value
MaxId == 88

\* setPoints updaters that may wait for React's render at one time
MaxPending == 1

\* updates that may sit in the queue with no render scheduled for them
MaxKept == 2

Unit == SmoothDen ^ FracSteps

\* pointer positions the input events draw from, in pixels
Pixels == {<<100, 60>>}

Px(p) == <<p[1] * Unit, p[2] * Unit>>

Min(a, b) == IF a < b THEN a ELSE b

----------------------------------------------------------------------------
(* The host: listeners and animation frames *)

Listener(type, d, e) == [type |-> type, desktop |-> d, enabled |-> e]

\* the handle requestAnimationFrame returns: a handle never returned before,
\* so one that no pending callback holds and that frameId does not hold
\* (handles are only ever compared with those)
NewHandle(fs) ==
    LET used == {f.id : f \in fs} \cup {frameId}
    IN  CHOOSE h \in 1..(Cardinality(used) + 1) :
            /\ h \notin used
            /\ \A g \in 1..(h - 1) : g \in used

requestAnimationFrame(fs, d, e) ==
    fs \cup {[id |-> NewHandle(fs), desktop |-> d, enabled |-> e]}

cancelAnimationFrame(fs, h) == {f \in fs : f.id # h}

----------------------------------------------------------------------------
(* The render, lines 114-170 *)

\* line 115 moved above line 114: the path is computed before the early return
RenderPathFirst(d, e) ==
    [tree |-> IF ~d THEN "null" ELSE IF e THEN "trail" ELSE "button",
     pathComputed |-> TRUE]

\* lines 114-170: null on a non-pointer device before any path is computed;
\* otherwise the path is computed (line 115) and the trail element is part
\* of the tree only when enabled (line 122)
Render(d, e) ==
    IF ~d
    THEN [tree |-> "null", pathComputed |-> FALSE]
    ELSE [tree |-> IF e THEN "trail" ELSE "button", pathComputed |-> TRUE]

----------------------------------------------------------------------------
(* The effects *)

\* lines 44-45: the input effect registers onMouse and onTouch
InputListeners(d, e) == {Listener("mousemove", d, e), Listener("touchmove", d, e)}

\* lines 46-49 without line 48: onTouch stays registered
InputCleanupMouseOnly(ls, d, e) == ls \ {Listener("mousemove", d, e)}

\* lines 46-49: its cleanup removes them
InputCleanup(ls, d, e) == ls \ InputListeners(d, e)

\* line 77 left out: the cleanup cancels nothing
LoopCleanupNone(fs, h) == fs

\* line 77: the frame-loop cleanup
LoopCleanup(fs, h) == cancelAnimationFrame(fs, h)

\* the values the last commit gave the dependencies of lines 50 and 78
Committed == <<isDesktop, isEnabled>>

\* what the effects have registered with the host
Host == [listeners |-> listeners, frames |-> frames, frameId |-> frameId]

\* The cleanups of the effects at lines 32-50 and 53-78 (with the closure old
\* of the instances installed) followed by the effects (with the closure new)
RunEffect(h, old, new) ==
    LET cleaned == LoopCleanup(h.frames, h.frameId)
    IN  [listeners |-> InputCleanup(h.listeners, old[1], old[2])
                           \cup InputListeners(new[1], new[2]),
         frames    |-> requestAnimationFrame(cleaned, new[1], new[2]),
         frameId   |-> NewHandle(cleaned)]

\* the host once React has run the effects a commit left to run: React runs
\* them before it renders again and before it unmounts
Flushed == IF deps # Committed THEN RunEffect(Host, deps, Committed) ELSE Host

\* the host once the three effects have run for the first time, lines 23-78
Mounted ==
    [listeners |-> {Listener("resize", TRUE, TRUE)}
                       \cup InputListeners(isDesktop, isEnabled),
     frames    |-> requestAnimationFrame(frames, isDesktop, isEnabled),
     frameId   |-> NewHandle(frames)]

----------------------------------------------------------------------------
(* React's update queue.  dispatchSetState computes the new state at once  *)
(* (running an updater function) when neither fiber of the component is    *)
(* marked with pending work; when that state is the current one no render  *)
(* is scheduled, and the update is dropped or, in builds of React that     *)
(* keep it (react.keeps), left in the queue unmarked.  Otherwise the       *)
(* update is queued with its lane and the fibers are marked.  A render     *)
(* takes the updates of its lanes and leaves the others, marking the fiber *)
(* it builds with their lanes; the other fiber keeps its marks unless the  *)
(* render left the state unchanged.  A render scheduled by a click or a    *)
(* resize has the sync lane; in builds that render the default lane with   *)
(* it (react.unified) it takes the marked default-lane updates too.        *)

\* the builds of React the component may run on (line 3 imports whichever
\* the application resolves)
Builds == [unified : BOOLEAN, keeps : BOOLEAN]

NoLanes == [cur |-> {}, alt |-> {}]

Clean == lanes = NoLanes

\* an update of lane l was queued
Mark(ln, l) == [cur |-> ln.cur \cup {l}, alt |-> ln.alt \cup {l}]

\* a render of the lanes R has committed; skipped: the lanes of the updates
\* it left
Rendered(ln, R, changed, skipped) ==
    [cur |-> skipped, alt |-> IF changed THEN ln.cur ELSE ln.cur \ R]

\* setIsDesktop(v) queued, line 25
DesktopUpdate(v, l, marked) ==
    [hook |-> "isDesktop", lane |-> l, marked |-> marked, value |-> v,
     eager |-> FALSE, state |-> <<>>]

\* setPoints(updater) queued, line 57; state: the result when the updater
\* was run at once
PointsUpdate(eager, state) ==
    [hook |-> "points", lane |-> "default", marked |-> TRUE, value |-> FALSE,
     eager |-> eager, state |-> state]

\* the queued setPoints updates that have not run yet
Waiting == {i \in DOMAIN updateQueue :
               updateQueue[i].hook = "points" /\ ~updateQueue[i].eager}

\* the queued setPoints updates
Pending == {i \in DOMAIN updateQueue : updateQueue[i].hook = "points"}

\* the queued updates React was left no render to schedule for
Kept == {i \in DOMAIN updateQueue : ~updateQueue[i].marked}

\* the lanes React has a render scheduled for
RootLanes(q) == {q[i].lane : i \in {j \in DOMAIN q : q[j].marked}}

\* the lanes the next render takes, of those scheduled
RenderLanes(pending) ==
    IF react.unified \/ "sync" \notin pending THEN pending ELSE {"sync"}

\* the updates of q a render of the lanes R works through
Taken(q, R) ==
    LET In(u) == u.lane \in R
    IN  SelectSeq(q, In)

\* the state setIsDesktop updates of q give when all are applied to d
LastDesktop(q, d) ==
    LET D == {i \in DOMAIN q : q[i].hook = "isDesktop"}
    IN  IF D = {} THEN d
        ELSE q[CHOOSE i \in D : \A j \in D : j <= i].value

\* The updates of q a render of the lanes R leaves queued.  React applies
\* them later to the state they were dispatched on, followed again by the
\* updates this render took after them: a setIsDesktop left queued gives,
\* from then on, the value of the last setIsDesktop of q.
Skipped(q, R) ==
    LET Out(u) == u.lane \notin R
        rest   == SelectSeq(q, Out)
    IN  [i \in DOMAIN rest |->
            IF rest[i].hook = "isDesktop"
            THEN DesktopUpdate(LastDesktop(q, TRUE), rest[i].lane, TRUE)
            ELSE rest[i]]


----------------------------------------------------------------------------
(* The input handlers, lines 33-43 *)

\* lines 33-38 without the test of line 34
onMouseUnguarded(l, p, raw) == Px(p)

\* lines 33-38: RawSample after onMouse of listener l ran on an event at p
onMouse(l, p, raw) == IF l.desktop /\ l.enabled THEN Px(p) ELSE raw

\* lines 39-43: RawSample after onTouch ran on a first touch at p
onTouch(p, raw) == Px(p)

----------------------------------------------------------------------------
(* The frame loop, lines 55-75 *)

\* line 56
LoopGuard(f) == f.enabled /\ f.desktop

\* lines 61-64 on one axis
Advance(raw, disp) == disp + ((raw - disp) * SmoothNum) \div SmoothDen

\* lines 60-69 with the id read but not incremented
SubStepSameId(st) ==
    LET x == Advance(rawPos[1], st.display[1])
        y == Advance(rawPos[2], st.display[2])
    IN  [display |-> <<x, y>>,
         tail    |-> <<[x |-> x, y |-> y, id |-> st.pointId]>> \o st.tail,
         pointId |-> st.pointId,
         pushes  |-> st.pushes + 1]

\* lines 60-69 with the push (66-69) placed before the chase (61-64)
SubStepPushFirst(st) ==
    LET x == Advance(rawPos[1], st.display[1])
        y == Advance(rawPos[2], st.display[2])
    IN  [display |-> <<x, y>>,
         tail    |-> <<[x |-> st.display[1], y |-> st.display[2],
                        id |-> st.pointId]>> \o st.tail,
         pointId |-> st.pointId + 1,
         pushes  |-> st.pushes + 1]

\* lines 60-69: one chase sub-step and one push
SubStep(st) ==
    LET x == Advance(rawPos[1], st.display[1])
        y == Advance(rawPos[2], st.display[2])
    IN  [display |-> <<x, y>>,
         tail    |-> <<[x |-> x, y |-> y, id |-> st.pointId]>> \o st.tail,
         pointId |-> st.pointId + 1,
         pushes  |-> st.pushes + 1]

RECURSIVE IterateOneMore(_, _)
\* lines 59-70 with i <= ITERATIONS_PER_FRAME as the loop test
IterateOneMore(i, st) ==
    IF i <= ITERATIONS_PER_FRAME THEN IterateOneMore(i + 1, SubStep(st)) ELSE st

RECURSIVE Iterate(_, _)
\* lines 59-70
Iterate(i, st) ==
    IF i < ITERATIONS_PER_FRAME THEN Iterate(i + 1, SubStep(st)) ELSE st

\* line 71 with the bound off by one
SliceOffByOne(tail) == SubSeq(tail, 1, Min(Len(tail), MAX_POINTS + 1))

\* line 71
Slice(tail) == SubSeq(tail, 1, Min(Len(tail), MAX_POINTS))

\* every division of the chase steps of one updater run from disp is exact
ChaseExact(disp) ==
    \A i \in 1..2 :
        (rawPos[i] - disp[i]) % (SmoothDen ^ ITERATIONS_PER_FRAME) = 0

\* lines 57-58: the state an updater run now on the committed history
\* starts from
Start == [display |-> displayPos, tail |-> points, pointId |-> pointId,
          pushes |-> totalPushes]

\* lines 57-72: the updater, on the history st.tail and the refs
Updater(st) ==
    LET r == Iterate(0, st)
    IN  [r EXCEPT !.tail = Slice(r.tail)]

RECURSIVE Reduce(_, _)
\* The render works through the queue q, oldest update first: an update
\* computed when it was dispatched gives its state, another updater is run
\* now, on the state so far and the refs as they are.
Reduce(q, st) ==
    IF q = <<>> THEN st
    ELSE LET u == Head(q)
             r == Updater([display |-> st.display, tail |-> st.tail,
                           pointId |-> st.pointId, pushes |-> st.pushes])
         IN  Reduce(Tail(q),
                 IF u.hook = "isDesktop" THEN [st EXCEPT !.desktop = u.value]
                 ELSE IF u.eager THEN [st EXCEPT !.tail = u.state]
                 ELSE [desktop |-> st.desktop,
                       exact   |-> st.exact /\ ChaseExact(st.display),
                       display |-> r.display,
                       tail    |-> r.tail,
                       pointId |-> r.pointId,
                       pushes  |-> r.pushes])

\* no function is applied on its own
NoCall == [fn |-> "none"]

\* The render of the component for the queue q, with the fibers marked ln,
\* the lanes `now` scheduled besides those of q, the host h0 and isEnabled
\* becoming e: the component function works through the updates of the
\* render's lanes, running the setPoints updaters of lines 57-72.  The
\* cleanups and effects of changed dependencies (lines 32-78) run in the
\* same task when the render has the sync lane, in a later task otherwise.
Work(h0, q, ln, now, e) ==
    LET R    == RenderLanes(RootLanes(q) \cup now)
        r    == Reduce(Taken(q, R),
                       [desktop |-> isDesktop, exact |-> TRUE,
                        display |-> displayPos, tail |-> points,
                        pointId |-> pointId, pushes |-> totalPushes])
        left == Skipped(q, R)
        new  == <<r.desktop, e>>
        sync == "sync" \in R
        changed == \/ new # Committed
                   \/ \E i \in DOMAIN q :
                          q[i].hook = "points" /\ q[i].lane \in R
    IN  [exact   |-> r.exact,
         desktop |-> r.desktop,
         enabled |-> e,
         tail    |-> r.tail,
         display |-> r.display,
         pointId |-> r.pointId,
         pushes  |-> r.pushes,
         host    |-> IF sync /\ new # Committed
                     THEN RunEffect(h0, Committed, new) ELSE h0,
         deps    |-> IF sync THEN new ELSE Committed,
         queue   |-> left,
         lanes   |-> Rendered(ln, R, changed,
                              {left[i].lane : i \in DOMAIN left})]

\* The commit of the render w: lines 114-170 give the view.
Commit(w) ==
    /\ w.exact
    /\ isDesktop' = w.desktop
    /\ isEnabled' = w.enabled
    /\ points' = w.tail
    /\ displayPos' = w.display
    /\ pointId' = w.pointId
    /\ totalPushes' = w.pushes
    /\ view' = Render(w.desktop, w.enabled)
    /\ listeners' = w.host.listeners
    /\ frames' = w.host.frames
    /\ frameId' = w.host.frameId
    /\ deps' = w.deps
    /\ updateQueue' = w.queue
    /\ lanes' = w.lanes

----------------------------------------------------------------------------
Init ==
    /\ phase = "created"
    /\ react \in Builds
    /\ hover \in BOOLEAN
    /\ isDesktop = TRUE
    /\ isEnabled = TRUE
    /\ updateQueue = <<>>
    /\ lanes = NoLanes
    /\ deps = <<TRUE, TRUE>>
    /\ points = <<>>
    /\ rawPos = <<0, 0>>
    /\ displayPos = <<0, 0>>
    /\ pointId = 0
    /\ listeners = {}
    /\ frames = {}
    /\ frameId = 0
    /\ view = Render(TRUE, TRUE)
    /\ totalPushes = 0
    /\ lastAct = "none"
    /\ lastPos = <<0, 0>>
    /\ call = NoCall

\* The three effects run after the first render, lines 23-29, 32-50, 53-78.
\* check() at line 26 dispatches setIsDesktop(hover): no fiber is marked, so
\* the state is compared at once; when it differs the update is queued for
\* a render in a later task.
Mount ==
    /\ phase = "created"
    /\ phase' = "mounted"
    /\ updateQueue' =
           IF hover # isDesktop
           THEN <<DesktopUpdate(hover, "default", TRUE)>>
           ELSE IF react.keeps
                THEN <<DesktopUpdate(hover, "default", FALSE)>>
                ELSE <<>>
    /\ lanes' = IF hover = isDesktop THEN lanes ELSE Mark(lanes, "default")
    /\ listeners' = Mounted.listeners
    /\ frames' = Mounted.frames
    /\ frameId' = Mounted.frameId
    /\ deps' = Committed
    /\ lastAct' = "Mount"
    /\ UNCHANGED <<react, hover, isDesktop, isEnabled, points, rawPos,
                   displayPos, pointId, view, totalPushes, lastPos, call>>

\* React's render of the updates it has a render scheduled for (those of
\* check() in the mount effect and of loop, and those an earlier render
\* left): effects still to run are run first.
Rerender ==
    /\ phase = "mounted"
    /\ RootLanes(updateQueue) # {}
    /\ Commit(Work(Flushed, updateQueue, lanes, {}, isEnabled))
    /\ lastAct' = "Rerender"
    /\ UNCHANGED <<phase, react, hover, rawPos, lastPos, call>>

\* React runs the cleanups and effects of the dependencies the last
\* Rerender changed.
RunEffects ==
    /\ phase = "mounted"
    /\ deps # Committed
    /\ listeners' = Flushed.listeners
    /\ frames' = Flushed.frames
    /\ frameId' = Flushed.frameId
    /\ deps' = Committed
    /\ lastAct' = "RunEffects"
    /\ UNCHANGED <<phase, react, hover, isDesktop, isEnabled, updateQueue,
                   lanes, points, rawPos, displayPos, pointId, view,
                   totalPushes, lastPos, call>>

\* A resize event while the media query evaluates to m: check(), lines 24-25.
\* With no fiber marked and m the current state no render is scheduled.
\* Otherwise React renders in the task of the event.
Resize(m) ==
    /\ hover' = m
    /\ lastAct' = "Resize"
    /\ IF Listener("resize", TRUE, TRUE) \notin listeners
       THEN UNCHANGED <<isDesktop, isEnabled, view, listeners, frames,
                        frameId, updateQueue, lanes, deps, points,
                        displayPos, pointId, totalPushes>>
       ELSE IF Clean /\ m = isDesktop
       THEN /\ react.keeps => Cardinality(Kept) < MaxKept
            /\ updateQueue' =
                   IF react.keeps
                   THEN Append(updateQueue, DesktopUpdate(m, "sync", FALSE))
                   ELSE updateQueue
            /\ UNCHANGED <<isDesktop, isEnabled, view, listeners, frames,
                           frameId, lanes, deps, points, displayPos,
                           pointId, totalPushes>>
       ELSE Commit(Work(Flushed,
                        Append(updateQueue, DesktopUpdate(m, "sync", TRUE)),
                        Mark(lanes, "sync"), {"sync"}, isEnabled))
    /\ UNCHANGED <<phase, react, rawPos, lastPos, call>>

\* A mousemove event at p is dispatched to every registered onMouse; with
\* none registered the event reaches no code of the component.
MouseMove(p) ==
    LET ls == {l \in listeners : l.type = "mousemove"}
    IN  /\ rawPos' = IF \E l \in ls : onMouse(l, p, rawPos) # rawPos
                     THEN Px(p) ELSE rawPos
        /\ lastAct' = IF ls # {} THEN "MouseMove" ELSE lastAct
        /\ lastPos' = IF ls # {} THEN Px(p) ELSE lastPos
        /\ UNCHANGED <<phase, react, hover, isDesktop, isEnabled,
                       updateQueue, lanes, deps, points, displayPos, pointId,
                       listeners, frames, frameId, view, totalPushes, call>>

\* A touchmove event whose first touch is at p, dispatched to every
\* registered onTouch.
TouchMove(p) ==
    LET ls == {l \in listeners : l.type = "touchmove"}
    IN  /\ rawPos' = IF ls # {} THEN onTouch(p, rawPos) ELSE rawPos
        /\ lastAct' = IF ls # {} THEN "TouchMove" ELSE lastAct
        /\ lastPos' = IF ls # {} THEN Px(p) ELSE lastPos
        /\ UNCHANGED <<phase, react, hover, isDesktop, isEnabled,
                       updateQueue, lanes, deps, points, displayPos, pointId,
                       listeners, frames, frameId, view, totalPushes, call>>

\* the render of a click: setIsEnabled(!isEnabled) is queued with the sync
\* lane and rendered in the task of the click.  A click that comes before
\* the effects of the first render have run makes React run them first, with
\* the fiber marked: check() then queues setIsDesktop(hover) whatever hover.
Clicked ==
    IF phase = "created"
    THEN Work(Mounted,
              Append(updateQueue, DesktopUpdate(hover, "default", TRUE)),
              Mark(Mark(lanes, "sync"), "default"), {"sync"}, ~isEnabled)
    ELSE Work(Flushed, updateQueue, Mark(lanes, "sync"), {"sync"},
              ~isEnabled)

\* line 162 also clearing the buffer: setPoints([])
ToggleReset ==
    /\ phase \in {"created", "mounted"}
    /\ view.tree # "null"
    /\ Commit([Clicked EXCEPT !.tail = <<>>])
    /\ phase' = "mounted"
    /\ lastAct' = "Toggle"
    /\ UNCHANGED <<react, hover, rawPos, lastPos, call>>

\* A click on the toggle button, line 162; the button is in the document
\* from the first render on, unless the render returned null.
Toggle ==
    /\ phase \in {"created", "mounted"}
    /\ view.tree # "null"
    /\ Commit(Clicked)
    /\ phase' = "mounted"
    /\ lastAct' = "Toggle"
    /\ UNCHANGED <<react, hover, rawPos, lastPos, call>>

\* loop with line 74 not assigning frameId: requestAnimationFrame(loop);
TickKeepsFrameId(f) ==
    /\ f \in frames
    /\ LET active == LoopGuard(f)
           eager  == active /\ Clean
           st     == Updater(Start)
           rest   == frames \ {f}
       IN  /\ active => /\ Cardinality(Pending) < MaxPending
                        /\ pointId + ITERATIONS_PER_FRAME
                               * (Cardinality(Waiting) + 1) <= MaxId
           /\ eager => ChaseExact(displayPos)
           /\ displayPos' = IF eager THEN st.display ELSE displayPos
           /\ pointId' = IF eager THEN st.pointId ELSE pointId
           /\ totalPushes' = IF eager THEN st.pushes ELSE totalPushes
           /\ updateQueue' =
                  IF active
                  THEN Append(updateQueue,
                              PointsUpdate(eager, IF eager THEN st.tail ELSE <<>>))
                  ELSE updateQueue
           /\ lanes' = IF active THEN Mark(lanes, "default") ELSE lanes
           /\ frames' = requestAnimationFrame(rest, f.desktop, f.enabled)
           /\ frameId' = frameId
    /\ lastAct' = "Tick"
    /\ UNCHANGED <<phase, react, hover, isDesktop, isEnabled, deps, points,
                   rawPos, listeners, view, lastPos, call>>

\* The browser runs the pending animation-frame callback f: loop, lines
\* 55-75.  When the guard of line 56 passes, setPoints is called with the
\* updater: with no fiber marked the updater runs at once, otherwise it is
\* queued; either way the new history waits for a render.
Tick(f) ==
    /\ f \in frames
    /\ LET active == LoopGuard(f)
           eager  == active /\ Clean
           st     == Updater(Start)
           rest   == frames \ {f}
       IN  /\ active => /\ Cardinality(Pending) < MaxPending
                        /\ pointId + ITERATIONS_PER_FRAME
                               * (Cardinality(Waiting) + 1) <= MaxId
           /\ eager => ChaseExact(displayPos)
           /\ displayPos' = IF eager THEN st.display ELSE displayPos
           /\ pointId' = IF eager THEN st.pointId ELSE pointId
           /\ totalPushes' = IF eager THEN st.pushes ELSE totalPushes
           /\ updateQueue' =
                  IF active
                  THEN Append(updateQueue,
                              PointsUpdate(eager, IF eager THEN st.tail ELSE <<>>))
                  ELSE updateQueue
           /\ lanes' = IF active THEN Mark(lanes, "default") ELSE lanes
           /\ frames' = requestAnimationFrame(rest, f.desktop, f.enabled)
           /\ frameId' = IF f.id = frameId THEN NewHandle(rest) ELSE frameId
    /\ lastAct' = "Tick"
    /\ UNCHANGED <<phase, react, hover, isDesktop, isEnabled, deps, points,
                   rawPos, listeners, view, lastPos, call>>

\* The component is removed: effects still to run are run, then the
\* cleanups at lines 28, 46-49 and 77; queued updates are dropped.
Unmount ==
    /\ phase = "mounted"
    /\ phase' = "unmounted"
    /\ listeners' = InputCleanup(Flushed.listeners, isDesktop, isEnabled)
                        \ {Listener("resize", TRUE, TRUE)}
    /\ frames' = LoopCleanup(Flushed.frames, Flushed.frameId)
    /\ frameId' = Flushed.frameId
    /\ deps' = Committed
    /\ updateQueue' = <<>>
    /\ lanes' = NoLanes
    /\ lastAct' = "Unmount"
    /\ UNCHANGED <<react, hover, isDesktop, isEnabled, points, rawPos,
                   displayPos, pointId, view, totalPushes, lastPos, call>>

Next ==
    \/ Mount
    \/ Rerender
    \/ RunEffects
    \/ \E m \in BOOLEAN : Resize(m)
    \/ \E p \in Pixels : MouseMove(p)
    \/ \E p \in Pixels : TouchMove(p)
    \/ Toggle
    \/ \E f \in frames : Tick(f)
    \/ Unmount

Spec == Init /\ [][Next]_vars

----------------------------------------------------------------------------
(* The chase step in binary64, lines 61-64.                                *)
(*                                                                         *)
(* A coordinate is held as [w, q], the number w * 4^-WholeSteps +          *)
(* q * 2^-48 pixels, w and q integers: w carries what the chase has made   *)
(* of whole pixels, q the low bits, far below one unit of w.  A double v   *)
(* with 2^e <= |v| < 2^(e+1) has its unit in the last place at 2^(e-52):   *)
(* with e <= 4 every such [w, q] is a double; with e > 4 the doubles are   *)
(* those with q a multiple of 2^(e-4), and the w part is an even multiple  *)
(* of the unit, so a tie goes to the even multiple in q.  dx = raw -       *)
(* display, dx * SMOOTHING_FACTOR and display + dx * SMOOTHING_FACTOR are  *)
(* each rounded to the nearest double.                                     *)

\* n / d rounded to the nearest integer, a tie to the even one (d > 0)
RoundHalfEven(n, d) ==
    LET q == n \div d
        r == n - q * d
    IN  IF 2 * r < d THEN q
        ELSE IF 2 * r > d THEN q + 1
        ELSE IF q % 2 = 0 THEN q ELSE q + 1

Abs(n) == IF n < 0 THEN -n ELSE n

\* sub-steps after a move of RawSample through which w stays whole
WholeSteps == 2

\* the last exact chase sub-steps a run of FloatSpec starts before
FloatLead == 2

\* units of w in one pixel
Whole == SmoothDen ^ WholeSteps

\* the whole pixel n
Pixel(n) == [w |-> n * Whole, q |-> 0]

RECURSIVE Exponent(_)
\* the e with 2^e <= n < 2^(e+1), n >= 1
Exponent(n) == IF n < 2 THEN 0 ELSE 1 + Exponent(n \div 2)

\* the spacing, in units of q, of the doubles around x (x.w # 0); 1 where
\* they are spaced more finely
Grid(x) ==
    LET M == Abs(x.w)
        r == IF x.w < 0 THEN -x.q ELSE x.q
        k == Exponent(M)
        e == (IF r < 0 /\ M = 2 ^ k THEN k - 1 ELSE k) - 2 * WholeSteps
    IN  IF e <= 4 THEN 1 ELSE 2 ^ (e - 4)

\* the double nearest to x, a tie to the even significand
Fl(x) ==
    IF x.w = 0 THEN x
    ELSE IF x.w < 0
    THEN [w |-> x.w, q |-> -(Grid(x) * RoundHalfEven(-x.q, Grid(x)))]
    ELSE [w |-> x.w, q |-> Grid(x) * RoundHalfEven(x.q, Grid(x))]

\* a - b, line 61, before it is rounded
Difference(a, b) == [w |-> a.w - b.w, q |-> a.q - b.q]

\* dx * SMOOTHING_FACTOR, line 63, before it is rounded
Scaled(dx) ==
    [w |-> (dx.w * SmoothNum) \div SmoothDen,
     q |-> (dx.q * SmoothNum) \div SmoothDen]

\* [w, q] holds dx * SMOOTHING_FACTOR without a remainder
Held(dx) == dx.w % SmoothDen = 0 /\ dx.q % SmoothDen = 0

\* display + p, line 63, before it is rounded
Sum(a, b) == [w |-> a.w + b.w, q |-> a.q + b.q]

\* lines 61-64 with the factor 1 - SMOOTHING_FACTOR applied to dx
AdvanceRoundedComplement(raw, disp) ==
    LET dx == Fl(Difference(raw, disp))
        p  == Fl([w |-> (dx.w * (SmoothDen - SmoothNum)) \div SmoothDen,
                  q |-> (dx.q * (SmoothDen - SmoothNum)) \div SmoothDen])
    IN  Fl(Sum(disp, p))

\* lines 61-64 with dx = display - raw
AdvanceRoundedSignSlip(raw, disp) ==
    LET dx == Fl(Difference(disp, raw))
    IN  Fl(Sum(disp, Fl(Scaled(dx))))

\* lines 61-64 on one axis: display after the step
AdvanceRounded(raw, disp) ==
    LET dx == Fl(Difference(raw, disp))
    IN  Fl(Sum(disp, Fl(Scaled(dx))))

\* pixels RawSample rests at, pixels DisplayPosition rested at before, and
\* pixels RawSample is moved to afterwards
FloatRaw == {65, 100, 127}

FloatFrom == {0, 83, 127}

FloatTargets == {100, 1000}

\* DisplayPosition rested at from, the pointer then moved to raw and stayed:
\* 23 - lead chase sub-steps later, all exact, display is raw plus
\* (from - raw) * 4^lead units in the last place
FloatStart(raw, from, lead) ==
    LET At(i) == [w |-> Pixel(raw[i]).w,
                  q |-> (from[i] - raw[i]) * SmoothDen ^ lead
                            * Grid(Pixel(raw[i]))]
    IN  [fn      |-> "advance",
         raw     |-> raw,
         prev    |-> <<At(1), At(2)>>,
         display |-> <<At(1), At(2)>>]

\* the component's own state, which the function specifications leave alone
Idle ==
    /\ phase = "created"
    /\ react = [unified |-> FALSE, keeps |-> FALSE]
    /\ hover = TRUE
    /\ isDesktop = TRUE
    /\ isEnabled = TRUE
    /\ updateQueue = <<>>
    /\ lanes = NoLanes
    /\ deps = <<TRUE, TRUE>>
    /\ points = <<>>
    /\ rawPos = <<0, 0>>
    /\ displayPos = <<0, 0>>
    /\ pointId = 0
    /\ listeners = {}
    /\ frames = {}
    /\ frameId = 0
    /\ view = Render(TRUE, TRUE)
    /\ totalPushes = 0
    /\ lastAct = "none"
    /\ lastPos = <<0, 0>>

mainVars == <<phase, react, hover, isDesktop, isEnabled, updateQueue, lanes, deps,
              points, rawPos, displayPos, pointId, listeners, frames,
              frameId, view, totalPushes, lastAct, lastPos>>

FloatInit ==
    /\ Idle
    /\ \E raw \in FloatRaw \X FloatRaw, from \in FloatFrom \X FloatFrom,
          lead \in 0..FloatLead :
           call = FloatStart(raw, from, lead)

\* a pointer event moves RawSample to the whole pixels p, lines 35-36
MoveRaw(p) ==
    /\ call.fn = "advance"
    /\ p # call.raw
    /\ call' = [call EXCEPT !.raw = p, !.prev = call.display]
    /\ UNCHANGED mainVars

\* one chase sub-step with RawSample held fixed, lines 61-64
ChaseStep ==
    /\ call.fn = "advance"
    /\ \A i \in 1..2 :
           Held(Fl(Difference(Pixel(call.raw[i]), call.display[i])))
    /\ call' = [call EXCEPT
                   !.prev = call.display,
                   !.display = <<AdvanceRounded(Pixel(call.raw[1]),
                                                call.display[1]),
                                 AdvanceRounded(Pixel(call.raw[2]),
                                                call.display[2])>>]
    /\ UNCHANGED mainVars

FloatNext ==
    \/ ChaseStep
    \/ \E p \in FloatTargets \X FloatTargets : MoveRaw(p)

FloatSpec == FloatInit /\ [][FloatNext]_vars

----------------------------------------------------------------------------
(* The curve synthesizer, lines 81-112 *)

\* the divisor of the tangents, lines 89-92
TANGENT_DIVISOR == 6

\* windowSize = 6, line 99
DEFAULT_WINDOW == 6

Max(a, b) == IF a > b THEN a ELSE b

RECURSIVE SumX(_, _, _)
\* lines 104-105: sumX over j = lo .. hi
SumX(pts, lo, hi) == IF lo > hi THEN 0 ELSE pts[lo].x + SumX(pts, lo + 1, hi)

RECURSIVE SumY(_, _, _)
\* lines 104, 106: sumY over j = lo .. hi
SumY(pts, lo, hi) == IF lo > hi THEN 0 ELSE pts[lo].y + SumY(pts, lo + 1, hi)

\* line 104 with i - windowSize as the start of the window
WindowStartOneMore(i, windowSize) == Max(1, i - windowSize)

\* line 104: the first index of the window of index i (indices from 1)
WindowStart(i, windowSize) == Max(1, i - windowSize + 1)

\* lines 99-112 averaging index i with the indices after it
smoothPointsOlder(pts, windowSize) ==
    IF Len(pts) < 2 THEN pts
    ELSE [i \in 1..Len(pts) |->
            LET hi    == Min(Len(pts), i + windowSize - 1)
                count == hi - i + 1
            IN  [x  |-> SumX(pts, i, hi) \div count,
                 y  |-> SumY(pts, i, hi) \div count,
                 id |-> pts[i].id]]

\* lines 99-112
smoothPoints(pts, windowSize) ==
    IF Len(pts) < 2 THEN pts
    ELSE [i \in 1..Len(pts) |->
            LET lo    == WindowStart(i, windowSize)
                count == i - lo + 1
            IN  [x  |-> SumX(pts, lo, i) \div count,
                 y  |-> SumY(pts, lo, i) \div count,
                 id |-> pts[i].id]]

\* every quotient of lines 109 is a whole number
SmoothExact(pts, windowSize) ==
    \A i \in 1..Len(pts) :
        LET lo    == WindowStart(i, windowSize)
            count == i - lo + 1
        IN  /\ SumX(pts, lo, i) % count = 0
            /\ SumY(pts, lo, i) % count = 0

\* line 85: the index of p0 for the segment from index i (indices from 1)
P0Index(i, n) == IF i > 1 THEN i - 1 ELSE i

\* line 88: the index of p3
P3Index(i, n) == IF i < n - 1 THEN i + 2 ELSE i + 1

\* lines 85-93 with cp2 = p2 + (p3 - p1) / 6
SegmentPlus(pts, i) ==
    LET p0 == pts[P0Index(i, Len(pts))]
        p1 == pts[i]
        p2 == pts[i + 1]
        p3 == pts[P3Index(i, Len(pts))]
    IN  [cmd  |-> "C",
         args |-> <<p1.x + (p2.x - p0.x) \div TANGENT_DIVISOR,
                    p1.y + (p2.y - p0.y) \div TANGENT_DIVISOR,
                    p2.x + (p3.x - p1.x) \div TANGENT_DIVISOR,
                    p2.y + (p3.y - p1.y) \div TANGENT_DIVISOR,
                    p2.x, p2.y>>]

\* lines 85-93: the segment from pts[i] to pts[i + 1]
Segment(pts, i) ==
    LET p0 == pts[P0Index(i, Len(pts))]
        p1 == pts[i]
        p2 == pts[i + 1]
        p3 == pts[P3Index(i, Len(pts))]
    IN  [cmd  |-> "C",
         args |-> <<p1.x + (p2.x - p0.x) \div TANGENT_DIVISOR,
                    p1.y + (p2.y - p0.y) \div TANGENT_DIVISOR,
                    p2.x - (p3.x - p1.x) \div TANGENT_DIVISOR,
                    p2.y - (p3.y - p1.y) \div TANGENT_DIVISOR,
                    p2.x, p2.y>>]

\* lines 81-96 with i < pts.length - 2 as the loop test
generateSmoothPathShort(pts) ==
    IF Len(pts) < 2 THEN <<>>
    ELSE <<[cmd |-> "M", args |-> <<pts[1].x, pts[1].y>>]>>
             \o [i \in 1..(Len(pts) - 2) |-> Segment(pts, i)]

\* lines 81-96 with pts.length < 1 as the test of line 82
generateSmoothPathNoGuard(pts) ==
    IF Len(pts) < 1 THEN <<>>
    ELSE <<[cmd |-> "M", args |-> <<pts[1].x, pts[1].y>>]>>
             \o [i \in 1..(Len(pts) - 1) |-> Segment(pts, i)]

\* lines 81-96
generateSmoothPath(pts) ==
    IF Len(pts) < 2 THEN <<>>
    ELSE <<[cmd |-> "M", args |-> <<pts[1].x, pts[1].y>>]>>
             \o [i \in 1..(Len(pts) - 1) |-> Segment(pts, i)]

\* every quotient of lines 89-92 is a whole number
PathExact(pts) ==
    \A i \in 1..(Len(pts) - 1) :
        LET p0 == pts[P0Index(i, Len(pts))]
            p3 == pts[P3Index(i, Len(pts))]
        IN  /\ (pts[i + 1].x - p0.x) % TANGENT_DIVISOR = 0
            /\ (pts[i + 1].y - p0.y) % TANGENT_DIVISOR = 0
            /\ (p3.x - pts[i].x) % TANGENT_DIVISOR = 0
            /\ (p3.y - pts[i].y) % TANGENT_DIVISOR = 0

\* longest history the functions are applied to
MaxLen == 4

\* largest window size smoothPoints is called with, besides the default
MaxWindow == 3

\* the whole-pixel positions of the points of a history
CurvePixels == {<<0, 0>>, <<360, 720>>, <<720, 360>>,
                <<10, 60>>, <<20, 60>>, <<30, 60>>}

\* the histories of n points, newest first, with the ids n-1 .. 0 a buffer
\* gives its first n points
Histories ==
    UNION {{[i \in 1..n |-> [x |-> ps[i][1], y |-> ps[i][2], id |-> n - i]] :
                ps \in [1..n -> CurvePixels]} : n \in 0..MaxLen}

CurveArgs(h) ==
    [fn |-> "curve", stage |-> "args", points |-> h, windowSize |-> 0,
     smoothed |-> <<>>, pts |-> <<>>, d |-> <<>>]

CurveInit ==
    /\ Idle
    /\ \E h \in Histories : call = CurveArgs(h)

\* smoothPoints(points, w), lines 99-112
SmoothPoints(w) ==
    /\ call.fn = "curve"
    /\ call.stage = "args"
    /\ SmoothExact(call.points, w)
    /\ call' = [call EXCEPT !.stage = "smoothed", !.windowSize = w,
                            !.smoothed = smoothPoints(call.points, w)]
    /\ UNCHANGED mainVars

\* generateSmoothPath(points), lines 81-96
GenerateSmoothPath ==
    /\ call.fn = "curve"
    /\ call.stage = "args"
    /\ PathExact(call.points)
    /\ call' = [call EXCEPT !.stage = "path", !.pts = call.points,
                            !.d = generateSmoothPath(call.points)]
    /\ UNCHANGED mainVars

\* line 115: generateSmoothPath(smoothPoints(points))
RenderPath ==
    /\ call.fn = "curve"
    /\ call.stage = "args"
    /\ SmoothExact(call.points, DEFAULT_WINDOW)
    /\ LET sm == smoothPoints(call.points, DEFAULT_WINDOW)
       IN  /\ PathExact(sm)
           /\ call' = [call EXCEPT !.stage = "rendered",
                                   !.windowSize = DEFAULT_WINDOW,
                                   !.smoothed = sm, !.pts = sm,
                                   !.d = generateSmoothPath(sm)]
    /\ UNCHANGED mainVars

CurveNext ==
    \/ \E w \in 1..MaxWindow : SmoothPoints(w)
    \/ GenerateSmoothPath
    \/ RenderPath

CurveSpec == CurveInit /\ [][CurveNext]_vars

----------------------------------------------------------------------------
(* Driver states of section 4.4 *)

EnabledActive == isEnabled /\ isDesktop

\* The history: the array the last run of the updater returned (line 71).
\* It is the points state, except between a run of the updater at the call
\* of setPoints and the render that commits its result.
History ==
    IF \E i \in DOMAIN updateQueue : updateQueue[i].eager
    THEN updateQueue[CHOOSE i \in DOMAIN updateQueue : updateQueue[i].eager].state
    ELSE points

----------------------------------------------------------------------------
(* C1: the history never holds more than MAX_POINTS points, and its length *)
(* is min(totalPushes, MAX_POINTS), totalPushes the snapshots pushed so    *)
(* far, whatever ticks, input events, toggles and device changes happened. *)
C1_BoundedBuffer ==
    /\ Len(points) <= MAX_POINTS
    /\ phase # "unmounted" =>
           /\ Len(History) = Min(totalPushes, MAX_POINTS)
           /\ Waiting = Pending => History = points

\* more snapshots were pushed than the buffer holds
C1_Witness ==
    /\ totalPushes > MAX_POINTS
    /\ Len(points) = MAX_POINTS
    /\ History = points

(* C2: walking the history from the newest entry to the oldest, the ids    *)
(* strictly decrease, so no id occurs twice.                               *)
C2_IdOrdering ==
    \A i \in 1..(Len(points) - 1) : points[i].id > points[i + 1].id

\* the buffer has dropped points and the effect was toggled off and on again
C2_Witness ==
    /\ totalPushes > MAX_POINTS
    /\ lastAct = "Toggle"
    /\ isEnabled
    /\ points[1].id > points[MAX_POINTS].id

(* C3: while the driver is not enabled-active no step, whatever ticks are  *)
(* taken, changes the history, DisplayPosition or the id counter.          *)
C3_NoMutationWhileInactive ==
    [][(~EnabledActive /\ ~EnabledActive')
           => UNCHANGED <<points, displayPos, pointId>>]_vars

(* C4: on a device that is not pointer-capable no frame tick, from mount   *)
(* onward, advances DisplayPosition or appends a point to the history.     *)
C4_NeverRunsOnNonPointerDevice ==
    [][(~hover /\ ~hover') => UNCHANGED <<displayPos, points>>]_vars

(* C5 as stated: while the driver is not enabled-active no frame callback  *)
(* remains scheduled.                                                      *)
C5_NoCallbackWhileInactive == ~EnabledActive => frames = {}

(* C5: teardown, a device change and a toggle stop the running frame loop: *)
(* after teardown no frame callback is scheduled; while mounted the one    *)
(* scheduled callback is that of the loop the effect last run started,     *)
(* with the isDesktop and isEnabled of that run.  After a toggle or a      *)
(* resize these are the current values, so a loop of a driver that is not  *)
(* enabled-active does nothing but reschedule itself; after the render of  *)
(* the detection made at mount the old loop stays until the effects run.   *)
C5_OldLoopStopped ==
    /\ phase = "unmounted" => frames = {}
    /\ phase = "mounted" =>
           /\ Cardinality(frames) = 1
           /\ \A f \in frames :
                  /\ f.id = frameId
                  /\ <<f.desktop, f.enabled>> = deps
           /\ lastAct \in {"Toggle", "Resize", "RunEffects"}
                  => deps = Committed
           /\ deps # Committed => (lastAct # "Mount" /\ ~isDesktop /\ deps[1])

\* a toggle or a device change has just left the driver not enabled-active
C5_Witness ==
    /\ phase = "mounted"
    /\ ~EnabledActive
    /\ lastAct \in {"Toggle", "Resize"}
    /\ frames # {}
    /\ deps = Committed

(* C6: once the component is unmounted no frame callback is pending, no    *)
(* mousemove, touchmove or resize listener is registered, and no later     *)
(* step changes RawSample, DisplayPosition or the history.                 *)
C6_TeardownLeavesNothing ==
    [][phase' = "unmounted" =>
           /\ frames' = {}
           /\ listeners' = {}
           /\ phase = "unmounted"
                  => UNCHANGED <<rawPos, displayPos, points>>]_vars

\* unmounted after ticks and a toggle off, with a history
C6_Witness ==
    /\ phase = "unmounted"
    /\ points # <<>>
    /\ ~isEnabled
    /\ frames = {}
    /\ listeners = {}

(* C7 as stated: every pointer-move and every touch-move event delivered   *)
(* sets RawSample to the coordinates of the event.                         *)
C7_RecordRawUnconditional ==
    lastAct \in {"MouseMove", "TouchMove"} => rawPos = lastPos

(* C7: a touch-move event sets RawSample to its coordinates in every       *)
(* driver state; a pointer-move event does so when the isDesktop and       *)
(* isEnabled its handler captured (those of the effect last run) are both  *)
(* true, and otherwise leaves RawSample unchanged.                         *)
C7_RecordRaw ==
    [][/\ lastAct' = "TouchMove" => rawPos' = lastPos'
       /\ lastAct' = "MouseMove" =>
              rawPos' = IF deps[1] /\ deps[2] THEN lastPos' ELSE rawPos]_vars

\* a pointer-move event was ignored while the effect is disabled
C7_Witness ==
    /\ lastAct = "MouseMove"
    /\ ~isEnabled
    /\ rawPos # lastPos

(* C8: only a frame tick taken while the driver is enabled-active writes   *)
(* DisplayPosition, the history and the id counter, by its updater, at     *)
(* once or in the next render; every other step leaves them unchanged.     *)
C8_SoleWriter ==
    [][/\ \/ UNCHANGED <<displayPos, points, pointId>>
          \/ lastAct' \in {"Tick", "Rerender"}
       /\ (lastAct' = "Tick" /\ updateQueue' # updateQueue)
              => EnabledActive]_vars

(* C9 as stated: no path is computed in a render that happens while the    *)
(* driver is not enabled-active.                                           *)
C9_NoPathWhileInactive ==
    (phase = "mounted" /\ ~EnabledActive) => ~view.pathComputed

(* C9: a render on a device classified as non-pointer returns null and     *)
(* computes no path; a render on a pointer device computes the path, also  *)
(* while disabled, when only the trail element is left out of the tree.    *)
C9_PathSuppressedOnNonPointerOnly ==
    /\ ~isDesktop => (view.tree = "null" /\ ~view.pathComputed)
    /\ isDesktop =>
           /\ view.pathComputed
           /\ view.tree = IF isEnabled THEN "trail" ELSE "button"

\* rendered while disabled on a pointer device: path computed, trail hidden
C9_Witness ==
    /\ phase = "mounted"
    /\ isDesktop
    /\ ~isEnabled
    /\ view.pathComputed
    /\ view.tree = "button"
    /\ points # <<>>

\* the residual e after n chase sub-steps: e * (1 - f)^n
Residual(e, n) == (e * (SmoothDen - SmoothNum) ^ n) \div (SmoothDen ^ n)

(* C10: the updater of an enabled-active frame tick, run with RawSample r   *)
(* and DisplayPosition d, leaves DisplayPosition at r - (r - d) * (1 - f)^4 *)
(* and pushes exactly ITERATIONS_PER_FRAME points in front of the old       *)
(* history, the newest first, with consecutive ids, the point of sub-step j *)
(* at r - (r - d) * (1 - f)^j; a render that runs k queued updaters does    *)
(* this k times over.                                                       *)
C10_FrameTick ==
    [][totalPushes' # totalPushes =>
        LET k == IF lastAct' = "Tick" THEN 1 ELSE Cardinality(Waiting)
            n == k * ITERATIONS_PER_FRAME
            old == SubSeq(History, 1, Min(Len(History), MAX_POINTS - n))
        IN  /\ lastAct' \in {"Tick", "Rerender", "Toggle", "Resize"}
            /\ totalPushes' = totalPushes + n
            /\ \A i \in 1..2 :
                   displayPos'[i] =
                       rawPos[i] - Residual(rawPos[i] - displayPos[i], n)
            /\ pointId' = pointId + n
            /\ Len(History') = Len(old) + n
            /\ SubSeq(History', n + 1, Len(History')) = old
            /\ \A j \in 1..n :
                   LET pt == History'[n + 1 - j]
                   IN  /\ pt.id = pointId + j - 1
                       /\ pt.x = rawPos[1] - Residual(rawPos[1] - displayPos[1], j)
                       /\ pt.y = rawPos[2] - Residual(rawPos[2] - displayPos[2], j)
       ]_vars

\* the first tick after the pointer jumped from (0,0) to (100,60):
\* display = (99.609375, 59.765625) = (6375/64, 3825/64), four points with
\* ids 3, 2, 1, 0
C10_Witness ==
    /\ lastAct = "Tick"
    /\ rawPos = Px(<<100, 60>>)
    /\ Len(History) = ITERATIONS_PER_FRAME
    /\ displayPos[1] * 64 = 6375 * Unit
    /\ displayPos[2] * 64 = 3825 * Unit
    /\ History[1].id = 3
    /\ History[4].id = 0
    /\ History[1].x = displayPos[1]
    /\ History[4].x = 75 * Unit

\* raw - display on axis i, as it is (not rounded), for a display d
Dist(i, d) == Difference(Pixel(call.raw[i]), d[i])

\* |x|
Magnitude(x) ==
    IF x.w < 0 \/ (x.w = 0 /\ x.q < 0) THEN [w |-> -x.w, q |-> -x.q] ELSE x

\* a <= b
AtMost(a, b) == a.w < b.w \/ (a.w = b.w /\ a.q <= b.q)

(* C11 as stated: with RawSample fixed, every advance sub-step leaves the  *)
(* distance from display to raw at exactly (1 - f) times what it was.      *)
C11_ExactFactor ==
    [][call'.raw = call.raw =>
        \A i \in 1..2 :
            LET old == Magnitude(Dist(i, call.display))
                new == Magnitude(Dist(i, call'.display))
            IN  /\ SmoothDen * new.w = (SmoothDen - SmoothNum) * old.w
                /\ SmoothDen * new.q = (SmoothDen - SmoothNum) * old.q]_vars

(* C11: with RawSample fixed, an advance sub-step never increases the      *)
(* distance on either axis; the new distance differs from (1 - f) times    *)
(* the old one by no more than the rounding of the three operations of     *)
(* lines 61-64 allows: f times half a unit in the last place of dx, plus   *)
(* half a unit of dx * f, plus half a unit of the new display, an          *)
(* operation that does not round counting nothing; so it is exactly        *)
(* (1 - f) times the old one when none of them rounds.                     *)
C11_Convergence ==
    [][call'.raw = call.raw =>
        \A i \in 1..2 :
            LET d   == call.display[i]
                old == Dist(i, call.display)
                new == Dist(i, call'.display)
                dx  == Fl(old)
                p   == Fl(Scaled(dx))
                e1  == IF dx = old THEN 0 ELSE Grid(old)
                e2  == IF p = Scaled(dx) THEN 0 ELSE Grid(Scaled(dx))
                e3  == IF call'.display[i] = Sum(d, p)
                       THEN 0 ELSE Grid(Sum(d, p))
            IN  /\ AtMost(Magnitude(new), Magnitude(old))
                /\ SmoothDen * new.w = (SmoothDen - SmoothNum) * old.w
                /\ 2 * Abs(SmoothDen * new.q - (SmoothDen - SmoothNum) * old.q)
                       <= SmoothNum * e1 + SmoothDen * e2 + SmoothDen * e3
       ]_vars

\* display.x = 100 - 17 * 2^-46, RawSample moved to x = 1000: dx rounds to
\* 900 + 16 * 2^-46, its product to 675 + 16 * 2^-46, and display becomes
\* 775, not 775 - 4.25 * 2^-46
C11_Witness ==
    /\ call.fn = "advance"
    /\ call.raw[1] = 1000
    /\ call.prev[1] = [w |-> Pixel(100).w, q |-> -17 * Grid(Pixel(100))]
    /\ call.display[1] = Pixel(775)

(* C16: an advance sub-step never moves DisplayPosition past RawSample: on *)
(* each axis the new display coordinate lies between the old one and raw,  *)
(* so the sign of raw - display never flips.                               *)
C16_NoOvershoot ==
    [][call'.raw = call.raw =>
        \A i \in 1..2 :
            LET old  == Dist(i, call.display)
                new  == Dist(i, call'.display)
                zero == Pixel(0)
            IN  /\ AtMost(zero, old) => (AtMost(zero, new) /\ AtMost(new, old))
                /\ AtMost(old, zero) => (AtMost(old, new) /\ AtMost(new, zero))
      ]_vars

\* a rounded step landed exactly on raw, from below on x; y comes from above
C16_Witness ==
    /\ call.fn = "advance"
    /\ call.raw = <<100, 100>>
    /\ Dist(1, call.prev).w = 0
    /\ Dist(1, call.prev).q > 0
    /\ Dist(1, call.display) = Pixel(0)
    /\ Dist(2, call.prev).q < 0
    /\ Dist(2, call.prev).q < Dist(2, call.display).q

(* C18: at most one frame callback is pending at any time, it is the one  *)
(* frameId names, a tick queues at most one updater, and no updater pushes *)
(* more than ITERATIONS_PER_FRAME points.                                  *)
C18_SingleLoop ==
    [][/\ Cardinality(frames') <= 1
       /\ \A f \in frames' : f.id = frameId'
       /\ Len(updateQueue') <= Len(updateQueue) + 1
       /\ LET k == IF lastAct' = "Tick" THEN 1 ELSE Cardinality(Waiting)
          IN  /\ totalPushes' <= totalPushes + k * ITERATIONS_PER_FRAME
              /\ pointId' <= pointId + k * ITERATIONS_PER_FRAME]_vars

\* a new loop was started by a toggle after the old loop had rescheduled itself
C18_Witness ==
    /\ lastAct = "Toggle"
    /\ isEnabled
    /\ totalPushes >= 2 * ITERATIONS_PER_FRAME
    /\ Cardinality(frames) = 1

(* C19: whenever the history is non-empty its newest entry holds the       *)
(* coordinates of the current DisplayPosition.                             *)
C19_HeadIsDisplay ==
    (phase # "unmounted" /\ History # <<>>) =>
        (History[1].x = displayPos[1] /\ History[1].y = displayPos[2])

\* disabled after the head moved away from the origin and from the pointer
C19_Witness ==
    /\ points # <<>>
    /\ History = points
    /\ ~isEnabled
    /\ displayPos # <<0, 0>>
    /\ rawPos # displayPos
    /\ lastAct = "TouchMove"

(* C20: no step shortens the history or lowers the id counter, so a        *)
(* history of MAX_POINTS points keeps that length.                         *)
C20_NeverShrinks ==
    [][/\ Len(points') >= Len(points)
       /\ pointId' >= pointId
       /\ Len(points) = MAX_POINTS => Len(points') = MAX_POINTS]_vars

\* a full history, the effect disabled, and a tick that changed nothing
C20_Witness ==
    /\ Len(points) = MAX_POINTS
    /\ ~isEnabled
    /\ lastAct = "Tick"


----------------------------------------------------------------------------
(* The curve synthesizer *)

\* the history pts with the position of its point at index j replaced by p
Perturb(pts, j, p) == [pts EXCEPT ![j].x = p[1], ![j].y = p[2]]

\* smoothPoints has returned for the history call.points
Smoothed == call.fn = "curve" /\ call.stage \in {"smoothed", "rendered"}

\* generateSmoothPath has returned call.d for the points call.pts
PathBuilt == call.fn = "curve" /\ call.stage \in {"path", "rendered"}

(* C12: for a history of n >= 2 points and a window W, smoothPoints returns
   n points; the point at index i has for x and y the arithmetic mean of
   the input points at indices max(0, i - W + 1) .. i and keeps the id of
   input point i.  Indices here start at 1. *)
C12_WindowMean ==
    (Smoothed /\ Len(call.points) >= 2) =>
        /\ Len(call.smoothed) = Len(call.points)
        /\ \A i \in 1..Len(call.points) :
              LET lo    == IF i - call.windowSize + 1 > 1
                           THEN i - call.windowSize + 1 ELSE 1
                  count == i - lo + 1
              IN  /\ call.smoothed[i].x * count = SumX(call.points, lo, i)
                  /\ call.smoothed[i].y * count = SumY(call.points, lo, i)
                  /\ call.smoothed[i].id = call.points[i].id

\* W = 3 and the x-values 10, 20, 30 have given 10, 15, 20
C12_Witness ==
    /\ call.fn = "curve"
    /\ call.stage = "smoothed"
    /\ call.windowSize = 3
    /\ [i \in 1..Len(call.points) |-> call.points[i].x] = <<10, 20, 30>>
    /\ [i \in 1..Len(call.smoothed) |-> call.smoothed[i].x] = <<10, 15, 20>>

(* C13 as stated: the smoothed point carrying id k is computed from the
   input point with id k and input points with smaller ids only, so moving
   an input point with a larger id never changes it. *)
C13_OlderNeighborsOnly ==
    (call.fn = "curve" /\ call.stage = "smoothed") =>
        \A i, j \in 1..Len(call.points) : \A p \in CurvePixels :
            LET q == Perturb(call.points, j, p)
            IN  (call.points[j].id > call.points[i].id
                    /\ SmoothExact(q, call.windowSize))
                => smoothPoints(q, call.windowSize)[i] = call.smoothed[i]

(* C13 amended: the smoothed point carrying id k is computed from the input
   point with id k and input points with larger ids (pushed later) only:
   moving an input point with a smaller id never changes it. *)
C13_NewerNeighborsOnly ==
    (call.fn = "curve" /\ call.stage = "smoothed") =>
        \A i, j \in 1..Len(call.points) : \A p \in CurvePixels :
            LET q == Perturb(call.points, j, p)
            IN  (call.points[j].id < call.points[i].id
                    /\ SmoothExact(q, call.windowSize))
                => smoothPoints(q, call.windowSize)[i] = call.smoothed[i]

\* the oldest of three points has been averaged with the point pushed after
\* it, which lies elsewhere
C13_Witness ==
    /\ call.fn = "curve"
    /\ call.stage = "smoothed"
    /\ call.windowSize = 2
    /\ Len(call.points) = 3
    /\ call.points[2].id > call.points[3].id
    /\ call.points[2].x # call.points[3].x
    /\ call.smoothed[3].x * 2 = call.points[2].x + call.points[3].x
    /\ call.smoothed[3].id = call.points[3].id

(* C14: for n >= 2 points the path is a move-to of the first point followed
   by exactly n - 1 cubic segments, and segment i ends at input point
   i + 1. *)
C14_PathShape ==
    (PathBuilt /\ Len(call.pts) >= 2) =>
        /\ Len(call.d) = Len(call.pts)
        /\ call.d[1] = [cmd |-> "M", args |-> <<call.pts[1].x, call.pts[1].y>>]
        /\ \A i \in 1..(Len(call.pts) - 1) :
              /\ call.d[i + 1].cmd = "C"
              /\ Len(call.d[i + 1].args) = 6
              /\ call.d[i + 1].args[5] = call.pts[i + 1].x
              /\ call.d[i + 1].args[6] = call.pts[i + 1].y

\* a path of three segments through four points no two of which coincide
C14_Witness ==
    /\ call.fn = "curve"
    /\ call.stage = "path"
    /\ Len(call.pts) = 4
    /\ Len(call.d) = 4
    /\ \A i, j \in 1..4 : i # j => call.pts[i].x # call.pts[j].x
    /\ call.d[4].args[5] = call.pts[4].x

(* C15: for 0 or 1 points smoothPoints returns its input unchanged and
   generateSmoothPath yields the empty path, so the rendered path is empty
   until the history holds at least 2 points. *)
C15_Degenerate ==
    /\ (Smoothed /\ Len(call.points) < 2) => call.smoothed = call.points
    /\ (PathBuilt /\ Len(call.pts) < 2) => call.d = <<>>
    /\ (call.fn = "curve" /\ call.stage = "rendered")
          => (call.d = <<>> <=> Len(call.points) < 2)

\* the path of a history of one point has been rendered
C15_Witness ==
    /\ call.fn = "curve"
    /\ call.stage = "rendered"
    /\ Len(call.points) = 1
    /\ call.smoothed = call.points
    /\ call.d = <<>>

(* C17: the segment from p1 = pts[i] to p2 = pts[i + 1] has the control
   points cp1 = p1 + (p2 - p0) / 6 and cp2 = p2 - (p3 - p1) / 6, where p0 is
   pts[i - 1], or p1 for the first segment, and p3 is pts[i + 2], or p2 for
   the last segment; no index outside the sequence is read. *)
C17_ControlPoints ==
    PathBuilt =>
        \A i \in 1..(Len(call.pts) - 1) :
            LET n  == Len(call.pts)
                p1 == call.pts[i]
                p2 == call.pts[i + 1]
                p0 == IF i = 1 THEN p1 ELSE call.pts[i - 1]
                p3 == IF i = n - 1 THEN p2 ELSE call.pts[i + 2]
                a  == call.d[i + 1].args
            IN  /\ P0Index(i, n) \in 1..n
                /\ P3Index(i, n) \in 1..n
                /\ (a[1] - p1.x) * 6 = p2.x - p0.x
                /\ (a[2] - p1.y) * 6 = p2.y - p0.y
                /\ (p2.x - a[3]) * 6 = p3.x - p1.x
                /\ (p2.y - a[4]) * 6 = p3.y - p1.y

\* four points: the first segment has taken p0 = p1, the last p3 = p2, and
\* the middle one has both tangents off zero
C17_Witness ==
    /\ call.fn = "curve"
    /\ call.stage = "path"
    /\ Len(call.pts) = 4
    /\ call.d[2].args[1] # call.pts[1].x
    /\ (call.d[2].args[1] - call.pts[1].x) * 6 = call.pts[2].x - call.pts[1].x
    /\ (call.pts[4].x - call.d[4].args[3]) * 6 = call.pts[4].x - call.pts[3].x
    /\ call.d[3].args[1] # call.pts[2].x
    /\ call.d[3].args[3] # call.pts[3].x

============================================================================
